---------------------------- MODULE Spec2Model ----------------------------
(***************************************************************************)
(* Model of chatbot.py: a district-information chatbot.  At start-up the   *)
(* dataset is loaded, every record is rendered to a canonical text, the    *)
(* texts are embedded and added to a flat L2 index.  Each POST /chat is    *)
(* screened against FORBIDDEN_KEYWORDS, the nearest texts are retrieved    *)
(* under a distance threshold, and the texts are parsed back into fields   *)
(* and rendered as a table with an optional chart.                         *)
(*                                                                         *)
(* Python strings are sequences of one-character strings, so that lower(), *)
(* strip(), split(), replace() and the `in` substring test are computed.   *)
(***************************************************************************)
EXTENDS Integers, Sequences, FiniteSets, TLC

(***************************************************************************)
(* Python str operations                                                   *)
(***************************************************************************)
SetMin(S) == CHOOSE x \in S : \A y \in S : x <= y
SetMax(S) == CHOOSE x \in S : \A y \in S : y <= x

UpperCase == <<"A","B","C","D","E","F","G","H","I","J","K","L","M",
               "N","O","P","Q","R","S","T","U","V","W","X","Y","Z">>
LowerCase == <<"a","b","c","d","e","f","g","h","i","j","k","l","m",
               "n","o","p","q","r","s","t","u","v","w","x","y","z">>

\* str.lower() on one character
LowerChar(c) ==
    IF \E i \in 1..26 : UpperCase[i] = c
    THEN LowerCase[CHOOSE i \in 1..26 : UpperCase[i] = c]
    ELSE c

\* str.lower()
Lower(s) == [i \in 1..Len(s) |-> LowerChar(s[i])]

\* str.strip(): leading and trailing whitespace removed
Strip(s) ==
    LET idx == {i \in 1..Len(s) : s[i] # " "}
    IN  IF idx = {} THEN <<>> ELSE SubSeq(s, SetMin(idx), SetMax(idx))

\* sub occurs in s at position i
MatchAt(s, sub, i) ==
    /\ i + Len(sub) - 1 <= Len(s)
    /\ \A j \in 1..Len(sub) : s[i + j - 1] = sub[j]

\* the Python test `sub in s`
Contains(s, sub) == \E i \in 1..(Len(s) + 1) : MatchAt(s, sub, i)

\* the positions at which sep occurs in s
Occurrences(s, sep) == {i \in 1..(Len(s) - Len(sep) + 1) : MatchAt(s, sep, i)}

\* the first position at which sep occurs in s, or 0
Find(s, sep) ==
    IF Occurrences(s, sep) = {} THEN 0 ELSE SetMin(Occurrences(s, sep))

\* the occurrences a left-to-right scan takes: each starts at or after the
\* end of the one before
RECURSIVE Cuts(_, _, _)
Cuts(hits, n, from) ==
    IF \A i \in hits : i < from THEN <<>>
    ELSE <<SetMin({i \in hits : i >= from})>>
           \o Cuts(hits, n, SetMin({i \in hits : i >= from}) + n)

\* the pieces of s between the cuts
Pieces(s, n, cuts) ==
    [j \in 1..(Len(cuts) + 1) |->
        SubSeq(s, IF j = 1 THEN 1 ELSE cuts[j - 1] + n,
                  IF j > Len(cuts) THEN Len(s) ELSE cuts[j] - 1)]

\* str.split(sep): every non-overlapping occurrence, left to right
Split(s, sep) == Pieces(s, Len(sep), Cuts(Occurrences(s, sep), Len(sep), 1))

\* str.split(sep, 1): at the first occurrence only
SplitAt(s, sep, i) ==
    IF i = 0 THEN <<s>>
    ELSE <<SubSeq(s, 1, i - 1), SubSeq(s, i + Len(sep), Len(s))>>

SplitOnce(s, sep) == SplitAt(s, sep, Find(s, sep))

\* "new".join(pieces)
RECURSIVE Join(_, _)
Join(pieces, new) ==
    IF Len(pieces) = 1 THEN pieces[1]
    ELSE pieces[1] \o new \o Join(Tail(pieces), new)

\* str.replace(old, new): every non-overlapping occurrence, left to right
Replace(s, old, new) == Join(Split(s, old), new)

DigitChars == <<"0","1","2","3","4","5","6","7","8","9">>
IsDigit(c) == \E d \in 1..10 : DigitChars[d] = c
DigitValue(c) == (CHOOSE d \in 1..10 : DigitChars[d] = c) - 1

\* decimal rendering of a natural number
RECURSIVE Digits(_)
Digits(n) ==
    IF n < 10 THEN <<DigitChars[n + 1]>>
    ELSE Digits(n \div 10) \o <<DigitChars[(n % 10) + 1]>>

\* value of a non-empty string of digits
RECURSIVE DigitsValue(_)
DigitsValue(s) ==
    IF Len(s) = 0 THEN 0
    ELSE 10 * DigitsValue(SubSeq(s, 1, Len(s) - 1)) + DigitValue(s[Len(s)])

(***************************************************************************)
(* JSON values and records                                                 *)
(***************************************************************************)
\* a JSON string, a JSON integer, a JSON number with a fraction (numbers are
\* kept in tenths: 12.5 is 125, and the integer 12 is 120)
StrVal(chars)   == [t |-> "str", s |-> chars]
IntVal(n)       == [t |-> "num", kind |-> "int", tenths |-> 10 * n]
FloatVal(tenths) == [t |-> "num", kind |-> "float", tenths |-> tenths]

\* f"{v}": a str as it is, an int in decimal, a float as repr ("12.5", "12.0")
Format(v) ==
    IF v.t = "str" THEN v.s
    ELSE IF v.kind = "int" THEN Digits(v.tenths \div 10)
    ELSE Digits(v.tenths \div 10) \o <<".">> \o Digits(v.tenths % 10)

\* float(s) on the numerals the model renders: digits with at most one "."
\* and one fractional digit; anything else raises ValueError
ParseFloat(s0) ==
    LET s == Strip(s0)
        parts == Split(s, <<".">>)
        AllDigits(p) == \A i \in 1..Len(p) : IsDigit(p[i])
    IN  IF Len(parts) = 1 /\ Len(s) > 0 /\ AllDigits(s)
        THEN [ok |-> TRUE, tenths |-> 10 * DigitsValue(s)]
        ELSE IF /\ Len(parts) = 2
                /\ AllDigits(parts[1]) /\ AllDigits(parts[2])
                /\ Len(parts[1]) + Len(parts[2]) > 0
                /\ Len(parts[2]) <= 1
        THEN [ok |-> TRUE, tenths |-> 10 * DigitsValue(parts[1]) + DigitsValue(parts[2])]
        ELSE [ok |-> FALSE, tenths |-> 0]

\* the keys data_to_text reads from a record
RecordFields == {"district", "lat", "lon", "year", "scenario",
                 "population_estimate", "avg_annual_rainfall_mm",
                 "groundwater_level_m"}

(***************************************************************************)
(* data_to_text                                                            *)
(***************************************************************************)
\* data[...] raises KeyError when the record lacks a key
DataToTextRaises(r) == ~(RecordFields \subseteq DOMAIN r)

DataToText(r) ==
    <<"D","i","s","t","r","i","c","t",":"," ">> \o Format(r["district"])
      \o <<","," ","L","a","t","i","t","u","d","e",":"," ">> \o Format(r["lat"])
      \o <<","," ","L","o","n","g","i","t","u","d","e",":"," ">> \o Format(r["lon"])
      \o <<","," ","Y","e","a","r",":"," ">> \o Format(r["year"])
      \o <<","," ","S","c","e","n","a","r","i","o",":"," ">> \o Format(r["scenario"])
      \o <<","," ","P","o","p","u","l","a","t","i","o","n",":"," ">> \o Format(r["population_estimate"])
      \o <<","," ","R","a","i","n","f","a","l","l",":"," ">> \o Format(r["avg_annual_rainfall_mm"]) \o <<" ","m","m">>
      \o <<","," ","G","r","o","u","n","d","w","a","t","e","r"," ","L","e","v","e","l",":"," ">> \o Format(r["groundwater_level_m"]) \o <<" ","m">>

(***************************************************************************)
(* generate_response: parsing a retrieved text back into fields            *)
(***************************************************************************)
DocParts(doc) == Split(doc, <<","," ">>)

\* `key, value = part.split(": ", 1)` raises ValueError on a part without ": "
PartsRaise(parts) ==
    \E i \in 1..Len(parts) : Find(parts[i], <<":"," ">>) = 0

ParseRaises(doc) == PartsRaise(DocParts(doc))

\* key.lower().replace(" ", "_")
FieldKey(key) == Replace(Lower(key), <<" ">>, <<"_">>)

\* one assignment fields[key.lower().replace(" ", "_")] = value
Assignment(kv) == <<FieldKey(kv[1]), kv[2]>>

\* the (key, value) assignments made to `fields`, in order
RECURSIVE PairsOf(_)
PairsOf(parts) ==
    IF parts = <<>> THEN <<>>
    ELSE <<Assignment(SplitOnce(Head(parts), <<":"," ">>))>> \o PairsOf(Tail(parts))

FieldPairs(doc) == PairsOf(DocParts(doc))

\* the dict `fields` after the assignments: a later assignment to a key
\* overwrites an earlier one
RECURSIVE DictOf(_)
DictOf(pairs) ==
    IF pairs = <<>> THEN <<>>
    ELSE LET n == Len(pairs)
         IN  (pairs[n][1] :> pairs[n][2]) @@ DictOf(SubSeq(pairs, 1, n - 1))

ParseFields(doc) == DictOf(FieldPairs(doc))

\* the inner loop over one document: raises, or leaves `fields`
ParseParts(parts) ==
    IF PartsRaise(parts) THEN [raises |-> TRUE, fields |-> <<>>]
    ELSE [raises |-> FALSE, fields |-> DictOf(PairsOf(parts))]

ParseDoc(doc) == ParseParts(DocParts(doc))

RECURSIVE ParseAll(_)
ParseAll(docs) ==
    IF docs = <<>> THEN <<>>
    ELSE <<ParseDoc(Head(docs))>> \o ParseAll(Tail(docs))

ChartKeys == {<<"y","e","a","r">>, <<"s","c","e","n","a","r","i","o">>, <<"r","a","i","n","f","a","l","l">>}
TableKeys == {<<"d","i","s","t","r","i","c","t">>, <<"y","e","a","r">>, <<"s","c","e","n","a","r","i","o">>, <<"r","a","i","n","f","a","l","l">>,
              <<"g","r","o","u","n","d","w","a","t","e","r","_","l","e","v","e","l">>, <<"p","o","p","u","l","a","t","i","o","n">>}

\* float(fields['rainfall'].replace(" mm", ""))
RainfallNumber(rainfall) == ParseFloat(Replace(rainfall, <<" ","m","m">>, <<>>))

\* variant: the label is built from the district instead of the year
ChartItemDistrictLabel(fields) ==
    [label    |-> fields[<<"d","i","s","t","r","i","c","t">>] \o <<" ","(">> \o fields[<<"s","c","e","n","a","r","i","o">>] \o <<")">>,
     rainfall |-> RainfallNumber(fields[<<"r","a","i","n","f","a","l","l">>]).tenths]

\* one chart_data entry
ChartItem(fields) ==
    [label    |-> fields[<<"y","e","a","r">>] \o <<" ","(">> \o fields[<<"s","c","e","n","a","r","i","o">>] \o <<")">>,
     rainfall |-> RainfallNumber(fields[<<"r","a","i","n","f","a","l","l">>]).tenths]

\* the exception one iteration of the loop over retrieved_docs raises
DocLoopError(p, is_ariyalur) ==
    IF p.raises THEN "ValueError"
    ELSE IF is_ariyalur /\ ~(ChartKeys \subseteq DOMAIN p.fields) THEN "KeyError"
    ELSE IF is_ariyalur /\ ~RainfallNumber(p.fields[<<"r","a","i","n","f","a","l","l">>]).ok THEN "ValueError"
    ELSE "none"

\* one <tr> of the table
TableRow(fields) ==
    [district          |-> fields[<<"d","i","s","t","r","i","c","t">>],
     year              |-> fields[<<"y","e","a","r">>],
     scenario          |-> fields[<<"s","c","e","n","a","r","i","o">>],
     rainfall          |-> fields[<<"r","a","i","n","f","a","l","l">>],
     groundwater_level |-> fields[<<"g","r","o","u","n","d","w","a","t","e","r","_","l","e","v","e","l">>],
     population        |-> fields[<<"p","o","p","u","l","a","t","i","o","n">>]]

RECURSIVE TableRows(_)
TableRows(parsed) ==
    IF parsed = <<>> THEN <<>>
    ELSE <<TableRow(Head(parsed).fields)>> \o TableRows(Tail(parsed))

RECURSIVE ChartData(_)
ChartData(parsed) ==
    IF parsed = <<>> THEN <<>>
    ELSE <<ChartItem(Head(parsed).fields)>> \o ChartData(Tail(parsed))

Greetings == {<<"h","i">>, <<"h","e","l","l","o">>, <<"h","e","y">>}
IdentityQuestion == <<"w","h","o"," ","a","r","e"," ","y","o","u">>
DistrictToken == <<"a","r","i","y","a","l","u","r">>

\* the chart block: emitted when is_ariyalur and chart_data is not empty
ChartOf(chart_data, is_ariyalur) ==
    IF is_ariyalur /\ Len(chart_data) > 0
    THEN [present |-> TRUE,
          labels  |-> [i \in 1..Len(chart_data) |-> chart_data[i].label],
          data    |-> [i \in 1..Len(chart_data) |-> chart_data[i].rainfall]]
    ELSE [present |-> FALSE, labels |-> <<>>, data |-> <<>>]

\* the general case of generate_response: the loop over retrieved_docs, then
\* the table, then the chart
RenderTable(query, parsed, is_ariyalur) ==
    LET loopErr == {i \in 1..Len(parsed) : DocLoopError(parsed[i], is_ariyalur) # "none"}
        rowErr  == {i \in 1..Len(parsed) : ~(TableKeys \subseteq DOMAIN parsed[i].fields)}
    IN  IF loopErr # {}
        THEN [ok |-> FALSE, kind |-> DocLoopError(parsed[SetMin(loopErr)], is_ariyalur)]
        ELSE IF rowErr # {}
        THEN [ok |-> FALSE, kind |-> "KeyError"]
        ELSE [ok |-> TRUE, kind |-> "table", query |-> query,
              rows  |-> TableRows(parsed),
              chart |-> ChartOf(IF is_ariyalur THEN ChartData(parsed) ELSE <<>>,
                                is_ariyalur)]

\* variant: the empty-result test comes before the greeting and identity tests
LadderEmptyFirst(query, query_lower, docs) ==
    IF Len(docs) = 0
    THEN [ok |-> TRUE, kind |-> "fallback", query |-> query]
    ELSE IF query_lower \in Greetings
    THEN [ok |-> TRUE, kind |-> "greeting"]
    ELSE IF query_lower = IdentityQuestion
    THEN [ok |-> TRUE, kind |-> "identity"]
    ELSE RenderTable(query, ParseAll(docs), Contains(query_lower, DistrictToken))

\* the special cases of generate_response, in the order the code tests them
Ladder(query, query_lower, docs) ==
    IF query_lower \in Greetings
    THEN [ok |-> TRUE, kind |-> "greeting"]
    ELSE IF query_lower = IdentityQuestion
    THEN [ok |-> TRUE, kind |-> "identity"]
    ELSE IF Len(docs) = 0
    THEN [ok |-> TRUE, kind |-> "fallback", query |-> query]
    ELSE RenderTable(query, ParseAll(docs), Contains(query_lower, DistrictToken))

\* generate_response(query, retrieved_docs, data)
GenerateResponse(query, docs) == Ladder(query, Strip(Lower(query)), docs)

(***************************************************************************)
(* Embedding model and flat L2 index                                       *)
(***************************************************************************)
\* Vectors are points 0 .. VecRange-1 of a line.  A SentenceTransformer is
\* an opaque deterministic map from text to vector: model m maps a text to
\* m times its length, modulo VecRange.
VecRange == 4
MaxModel == 2
Models == 1..MaxModel

\* model.encode(text)
Encode(m, text) == (m * Len(text)) % VecRange

\* IndexFlatL2 reports squared Euclidean distances
L2(a, b) == (a - b) * (a - b)

\* the largest distance between two vectors, and the float32 maximum that
\* IndexFlatL2 reports for a missing neighbour; Infinity is a float above it
MaxDistance == (VecRange - 1) * (VecRange - 1)
FLT_MAX == MaxDistance + 1
Infinity == FLT_MAX + 1

\* 1-based rank of stored vector p for query vector qv: ascending distance,
\* equal distances by ascending position
Rank(index, qv, p) ==
    1 + Cardinality({p2 \in 1..Len(index) :
                        \/ L2(index[p2], qv) < L2(index[p], qv)
                        \/ L2(index[p2], qv) = L2(index[p], qv) /\ p2 < p})

\* faiss_index.search(query_embedding, k): k slots, the nearest first; a slot
\* with no neighbour left holds label -1 and distance FLT_MAX.  Labels are
\* 0-based positions.
FaissSearch(index, qv, k) ==
    [j \in 1..k |->
        IF j <= Len(index)
        THEN LET p == CHOOSE p \in 1..Len(index) : Rank(index, qv, p) = j
             IN  [label |-> p - 1, dist |-> L2(index[p], qv)]
        ELSE [label |-> -1, dist |-> FLT_MAX]]

\* texts[i] for a Python list: a negative i counts from the end
PyIndex(list, i) == IF i >= 0 THEN list[i + 1] ELSE list[Len(list) + i + 1]

\* variant: the comparison is inverted
PassesThresholdInverted(dist, threshold) == dist > threshold

\* the comparison of the list comprehension's filter
PassesThreshold(dist, threshold) == dist < threshold

\* the labels the list comprehension keeps, in the order of the slots
RECURSIVE KeptLabels(_, _)
KeptLabels(hits, threshold) ==
    IF hits = <<>> THEN <<>>
    ELSE (IF PassesThreshold(Head(hits).dist, threshold)
          THEN <<Head(hits).label>> ELSE <<>>)
           \o KeptLabels(Tail(hits), threshold)

\* [texts[i] for i, dist in zip(indices[0], distances[0]) if dist < threshold]
ValidDocs(txts, kept) == [i \in 1..Len(kept) |-> PyIndex(txts, kept[i])]

\* retrieve_documents(query, model, faiss_index, texts, k, threshold)
RetrieveDocuments(query, m, index, txts, k, threshold) ==
    ValidDocs(txts, KeptLabels(FaissSearch(index, Encode(m, query), k), threshold))

(***************************************************************************)
(* Inputs: dataset files and queries                                       *)
(***************************************************************************)
MaxRecords == 2

Record(district, scenario, rainfall) ==
    [district               |-> StrVal(district),
     lat                    |-> FloatVal(111),
     lon                    |-> FloatVal(791),
     year                   |-> IntVal(2020),
     scenario               |-> StrVal(scenario),
     population_estimate    |-> IntVal(75),
     avg_annual_rainfall_mm |-> rainfall,
     groundwater_level_m    |-> FloatVal(82)]

\* two well-formed records, one whose district holds ", " and one whose
\* scenario holds ", " and ": "
GoodA == Record(<<"A","r">>, <<"S","1">>, FloatVal(125))
GoodB == Record(<<"A","r">>, <<"S","2">>, IntVal(1200))
CommaDistrict == Record(<<"A",","," ","B">>, <<"S","1">>, IntVal(12))
KeyInScenario == Record(<<"A","r">>, <<"S",","," ","D","i","s","t","r","i","c","t",":"," ","Z">>, IntVal(7))

\* a record without the key 'year'
NoYear == [k \in RecordFields \ {"year"} |-> GoodA[k]]

\* dataset entries: with an 'output' record, or without the key 'output'
Entries == {[output |-> GoodA], [output |-> GoodB], [output |-> CommaDistrict],
            [output |-> KeyInScenario], [output |-> NoYear],
            [input |-> GoodA]}

SeqsUpTo(S, n) == UNION {[1..m -> S] : m \in 0..n}

\* what DATA_PATH may hold: no file, a blank file, text that is not JSON, or
\* a JSON list of entries
Files == {[kind |-> "missing"], [kind |-> "blank"], [kind |-> "not_json"]}
           \cup {[kind |-> "json", entries |-> es] : es \in SeqsUpTo(Entries, MaxRecords)}

\* request.json.get('query'); the empty sequence stands for every falsy value
Queries == {<<>>, <<" ","H","i">>, <<"w","h","o"," ","a","r","e"," ","y","o","u">>, <<"A","r","i","y","a","l","u","r">>, <<" ","R","a","i","n"," ">>,
            <<"r","a","i","n","f","a","l","l","?">>, <<"A","r","i","y","a","l","u","r"," ","x","H","a","c","k","s">>}

FORBIDDEN_KEYWORDS ==
    {<<"j","a","i","l","b","r","e","a","k">>, <<"h","a","c","k">>, <<"e","x","p","l","o","i","t">>, <<"b","y","p","a","s","s">>, <<"o","v","e","r","r","i","d","e">>,
     <<"s","y","s","t","e","m"," ","p","r","o","m","p","t">>, <<"i","g","n","o","r","e"," ","i","n","s","t","r","u","c","t","i","o","n","s">>, <<"r","o","o","t"," ","a","c","c","e","s","s">>, <<"a","d","m","i","n">>,
     <<"m","a","l","i","c","i","o","u","s">>, <<"c","o","d","e"," ","i","n","j","e","c","t","i","o","n">>}

Threads == {"w1", "w2"}

(***************************************************************************)
(* State                                                                   *)
(***************************************************************************)
VARIABLES
    file,         \* the content of DATA_PATH
    boot,         \* module initialisation: "loading", "building", "serving", "failed"
    data,         \* global data: the loaded records
    model,        \* global model (0 before it is loaded)
    faiss_index,  \* global faiss_index: the stored vectors, in the order added
    texts,        \* global texts: the canonical texts
    pc,           \* per request thread: "idle", "retrieve", "generate", "done"
    query,        \* per thread: the request's query
    docs,         \* per thread: retrieved_docs
    searches,     \* per thread: calls of retrieve_documents made for the request
    resp,         \* per thread: the HTTP response
    call          \* a direct call of retrieve_documents or data_to_text and its result

vars == <<file, boot, data, model, faiss_index, texts,
          pc, query, docs, searches, resp, call>>
globals == <<data, model, faiss_index, texts>>
requests == <<pc, query, docs, searches, resp>>

NoResp == [status |-> 0, body |-> [ok |-> TRUE, kind |-> "none"]]
NoCall == [op |-> "none"]

Init ==
    /\ file \in Files
    /\ boot = "loading"
    /\ data = <<>> /\ model = 0 /\ faiss_index = <<>> /\ texts = <<>>
    /\ pc = [t \in Threads |-> "idle"]
    /\ query = [t \in Threads |-> <<>>]
    /\ docs = [t \in Threads |-> <<>>]
    /\ searches = [t \in Threads |-> 0]
    /\ resp = [t \in Threads |-> NoResp]
    /\ call = NoCall

(***************************************************************************)
(* Module initialisation                                                   *)
(***************************************************************************)
\* load_data raises: FileNotFoundError, ValueError (blank file),
\* JSONDecodeError, KeyError (an entry without 'output')
LoadRaises(f) ==
    \/ f.kind # "json"
    \/ \E i \in 1..Len(f.entries) : "output" \notin DOMAIN f.entries[i]

\* [entry['output'] for entry in data]
LoadData(f) == [i \in 1..Len(f.entries) |-> f.entries[i].output]

\* data = load_data(DATA_PATH)
Load ==
    /\ boot = "loading"
    /\ IF LoadRaises(file)
       THEN boot' = "failed" /\ data' = data
       ELSE boot' = "building" /\ data' = LoadData(file)
    /\ UNCHANGED <<file, model, faiss_index, texts, requests, call>>

\* texts = [data_to_text(entry) for entry in data]
BuildTexts(d) == [i \in 1..Len(d) |-> DataToText(d[i])]

\* variant: the first text is not added to the index
BuildIndexSkipsFirst(m, txts) == [i \in 1..(Len(txts) - 1) |-> Encode(m, txts[i + 1])]

\* embeddings = model.encode(texts); faiss_index.add(embeddings)
BuildIndex(m, txts) == [i \in 1..Len(txts) |-> Encode(m, txts[i])]

\* variant: an empty dataset is accepted
CreateRaisesOnlyKeyError(d) == \E i \in 1..Len(d) : DataToTextRaises(d[i])

\* create_vector_store raises: KeyError from data_to_text, IndexError from
\* embeddings.shape[1] when there is no text to encode
CreateRaises(d) ==
    \/ \E i \in 1..Len(d) : DataToTextRaises(d[i])
    \/ Len(d) = 0

\* model, faiss_index, texts = create_vector_store(data)
CreateVectorStore ==
    /\ boot = "building"
    /\ IF CreateRaises(data)
       THEN boot' = "failed" /\ UNCHANGED <<model, faiss_index, texts>>
       ELSE \E m \in Models :
               /\ model' = m
               /\ texts' = BuildTexts(data)
               /\ faiss_index' = BuildIndex(m, BuildTexts(data))
               /\ boot' = "serving"
    /\ UNCHANGED <<file, data, requests, call>>

(***************************************************************************)
(* POST /chat                                                              *)
(***************************************************************************)
ChatK == 3
ChatThreshold == 1

\* variant: the query is not lower-cased before the test
IsForbiddenCaseSensitive(q) ==
    \E keyword \in FORBIDDEN_KEYWORDS : Contains(Strip(q), keyword)

\* any(keyword in query_lower for keyword in FORBIDDEN_KEYWORDS)
IsForbidden(q) ==
    LET query_lower == Strip(Lower(q))
    IN  \E keyword \in FORBIDDEN_KEYWORDS : Contains(query_lower, keyword)

Reply(status, body) == [status |-> status, body |-> body]
NoQueryReply == Reply(400, [ok |-> TRUE, kind |-> "no_query"])
RefusalReply == Reply(400, [ok |-> TRUE, kind |-> "refusal"])

\* chat(), up to the forbidden-keyword check
Receive(t, q) ==
    /\ boot = "serving"
    /\ pc[t] = "idle"
    /\ query' = [query EXCEPT ![t] = q]
    /\ searches' = [searches EXCEPT ![t] = 0]
    /\ docs' = [docs EXCEPT ![t] = <<>>]
    /\ IF q = <<>>
       THEN pc' = [pc EXCEPT ![t] = "done"] /\ resp' = [resp EXCEPT ![t] = NoQueryReply]
       ELSE IF IsForbidden(q)
       THEN pc' = [pc EXCEPT ![t] = "done"] /\ resp' = [resp EXCEPT ![t] = RefusalReply]
       ELSE pc' = [pc EXCEPT ![t] = "retrieve"] /\ resp' = [resp EXCEPT ![t] = NoResp]
    /\ UNCHANGED <<file, boot, globals, call>>

\* retrieved_docs = retrieve_documents(query, model, faiss_index, texts, k=3, threshold=1.0)
Retrieve(t) ==
    /\ pc[t] = "retrieve"
    /\ docs' = [docs EXCEPT ![t] =
                  RetrieveDocuments(query[t], model, faiss_index, texts, ChatK, ChatThreshold)]
    /\ searches' = [searches EXCEPT ![t] = @ + 1]
    /\ pc' = [pc EXCEPT ![t] = "generate"]
    /\ UNCHANGED <<file, boot, globals, query, resp, call>>

\* response = generate_response(...); an exception becomes the 500 reply
ChatReply(q, retrieved) ==
    LET r == GenerateResponse(q, retrieved)
    IN  IF r.ok THEN Reply(200, r) ELSE Reply(500, r)

Generate(t) ==
    /\ pc[t] = "generate"
    /\ resp' = [resp EXCEPT ![t] = ChatReply(query[t], docs[t])]
    /\ pc' = [pc EXCEPT ![t] = "done"]
    /\ UNCHANGED <<file, boot, globals, query, docs, searches, call>>

\* the reply is sent and the thread takes the next request
Return(t) ==
    /\ pc[t] = "done"
    /\ pc' = [pc EXCEPT ![t] = "idle"]
    /\ query' = [query EXCEPT ![t] = <<>>]
    /\ docs' = [docs EXCEPT ![t] = <<>>]
    /\ searches' = [searches EXCEPT ![t] = 0]
    /\ resp' = [resp EXCEPT ![t] = NoResp]
    /\ UNCHANGED <<file, boot, globals, call>>

Next ==
    \/ Load
    \/ CreateVectorStore
    \/ \E t \in Threads, q \in Queries : Receive(t, q)
    \/ \E t \in Threads : Retrieve(t)
    \/ \E t \in Threads : Generate(t)
    \/ \E t \in Threads : Return(t)

Spec == Init /\ [][Next]_vars

(***************************************************************************)
(* Direct calls of retrieve_documents and of data_to_text                  *)
(***************************************************************************)
MaxK == 3

\* thresholds at each distance two vectors can have, at FLT_MAX and above it
Thresholds == {L2(a, b) : a, b \in 0..(VecRange - 1)} \cup {FLT_MAX, Infinity}

\* queries whose lengths differ modulo VecRange
RetrieveQueries == {<<" ","H","i">>, <<"A","r","i","y","a","l","u","r">>, <<" ","R","a","i","n"," ">>, <<"r","a","i","n","f","a","l","l","?">>}

\* retrieve_documents(q, model, faiss_index, texts, k, t1) and then, with
\* nothing changed in between, retrieve_documents(q, ..., k, t2)
CallRetrieve(q, k, t1, t2) ==
    /\ boot = "serving"
    /\ call = NoCall
    /\ t1 <= t2
    /\ call' = [op   |-> "retrieve", query |-> q, k |-> k, t1 |-> t1, t2 |-> t2,
                hits |-> FaissSearch(faiss_index, Encode(model, q), k),
                kept |-> KeptLabels(FaissSearch(faiss_index, Encode(model, q), k), t1),
                out1 |-> RetrieveDocuments(q, model, faiss_index, texts, k, t1),
                out2 |-> RetrieveDocuments(q, model, faiss_index, texts, k, t2)]
    /\ UNCHANGED <<file, boot, globals, requests>>

\* datasets of records data_to_text accepts
RetrieveFiles ==
    {[kind |-> "json", entries |-> es] :
        es \in SeqsUpTo({[output |-> GoodA], [output |-> GoodB],
                         [output |-> KeyInScenario]}, MaxRecords)}

InitRetrieve == Init /\ file \in RetrieveFiles

NextRetrieve ==
    \/ Load
    \/ CreateVectorStore
    \/ \E q \in RetrieveQueries, k \in 1..MaxK, t1 \in Thresholds, t2 \in Thresholds :
          CallRetrieve(q, k, t1, t2)

SpecRetrieve == InitRetrieve /\ [][NextRetrieve]_vars

\* records for the round trip through data_to_text and the parser
Districts == {<<"A","r">>, <<"A",","," ","B">>, <<"A",":"," ","B">>, <<"A","r",","," ","Y","e","a","r",":"," ","1">>}
Scenarios == {<<"S","1">>, <<"a",":"," ","b">>, <<"S",","," ","D","i","s","t","r","i","c","t",":"," ","Z">>}
Numbers == {IntVal(9), FloatVal(125), FloatVal(120)}

TextRecords ==
    {[district               |-> StrVal(d),
      lat                    |-> FloatVal(111),
      lon                    |-> FloatVal(791),
      year                   |-> y,
      scenario               |-> StrVal(s),
      population_estimate    |-> IntVal(75),
      avg_annual_rainfall_mm |-> rain,
      groundwater_level_m    |-> gw] :
        d \in Districts, s \in Scenarios, y \in {IntVal(2020), IntVal(1999)},
        rain \in Numbers, gw \in Numbers}

\* data_to_text(r), and the parse generate_response makes of the text
CallDataToText(r) ==
    /\ call = NoCall
    /\ call' = [op |-> "text", record |-> r, text |-> DataToText(r),
                raises |-> ParseRaises(DataToText(r)),
                pairs  |-> IF ParseRaises(DataToText(r)) THEN <<>>
                           ELSE FieldPairs(DataToText(r)),
                fields |-> ParseDoc(DataToText(r)).fields]
    /\ UNCHANGED <<file, boot, globals, requests>>

InitText == Init /\ file = [kind |-> "missing"]

NextText == \E r \in TextRecords : CallDataToText(r)

SpecText == InitText /\ [][NextText]_vars

(***************************************************************************)
(* Properties                                                              *)
(***************************************************************************)
Normalized(q) == Strip(Lower(q))

HasDenyListedTerm(q) ==
    \E term \in FORBIDDEN_KEYWORDS : Contains(Normalized(q), term)

\* C1: a request whose normalized query contains a deny-listed term as a
\* substring is answered with the fixed refusal, whatever the dataset holds,
\* and retrieve_documents is never called for it.
C1_GatekeeperRefuses ==
    \A t \in Threads :
        (pc[t] # "idle" /\ HasDenyListedTerm(query[t])) =>
            /\ pc[t] = "done"
            /\ resp[t].status = 400 /\ resp[t].body.kind = "refusal"
            /\ searches[t] = 0
            /\ docs[t] = <<>>

\* C1 witness: a refused request whose query the index would have matched
C1_Witness ==
    \E t \in Threads :
        /\ pc[t] = "done" /\ HasDenyListedTerm(query[t])
        /\ resp[t].body.kind = "refusal"
        /\ RetrieveDocuments(query[t], model, faiss_index, texts, ChatK, ChatThreshold) # <<>>

\* the slots of a search result that hold a neighbour whose distance is
\* strictly below the threshold
PassingSlots(hits, threshold) ==
    {j \in 1..Len(hits) : hits[j].label >= 0 /\ hits[j].dist < threshold}

\* the i-th smallest element of a set of numbers
Nth(S, i) == CHOOSE x \in S : Cardinality({y \in S : y < x}) = i - 1

\* C2: retrieve_documents returns exactly the texts at the positions the
\* search returned with a distance strictly below the threshold, in the
\* order the search returned them, and the empty list when there is none.
C2_ExactlyThePassingNeighbours ==
    call.op = "retrieve" =>
        LET passing == PassingSlots(call.hits, call.t1)
        IN  /\ Len(call.out1) = Cardinality(passing)
            /\ \A i \in 1..Cardinality(passing) :
                  i <= Len(call.out1)
                    => call.out1[i] = texts[call.hits[Nth(passing, i)].label + 1]

\* C3: the result is never longer than k, and with k above the number of
\* indexed records it holds at most one text per record, each selected by a
\* position the search returned.
C3_AtMostKFromReturnedPositions ==
    call.op = "retrieve" =>
        /\ Len(call.out1) <= call.k
        /\ Len(call.out1) <= Len(texts)
        /\ \A i \in 1..Len(call.kept) : call.kept[i] \in 0..(Len(texts) - 1)
        /\ \A i, j \in 1..Len(call.kept) : call.kept[i] = call.kept[j] => i = j

RECURSIVE IsSubsequence(_, _)
IsSubsequence(a, b) ==
    IF a = <<>> THEN TRUE
    ELSE IF b = <<>> THEN FALSE
    ELSE IF Head(a) = Head(b) THEN IsSubsequence(Tail(a), Tail(b))
    ELSE IsSubsequence(a, Tail(b))

\* C4: for one query, one k and an unchanged index, the result for a
\* threshold t1 is contained, in the same relative order, in the result for
\* any threshold t2 >= t1.
C4_ThresholdMonotone ==
    call.op = "retrieve" =>
        (call.t1 <= call.t2 => IsSubsequence(call.out1, call.out2))

\* C4 witness: raising the threshold adds documents to a non-empty result
C4_Witness ==
    /\ call.op = "retrieve"
    /\ call.t1 < call.t2
    /\ call.out1 # <<>>
    /\ Len(call.out1) < Len(call.out2)

\* generate_response has run for the request of thread t and its reply is set
Composed(t) == pc[t] = "done" /\ searches[t] = 1

\* C5: generate_response answers a greeting with the greeting reply and the
\* identity question with the identity reply even when documents were
\* retrieved; otherwise an empty retrieved set gives the fallback, which
\* carries the query as it was sent and no table; only otherwise is a table
\* rendered.
C5_LadderPriority ==
    \A t \in Threads :
        Composed(t) =>
            LET q == Normalized(query[t])
                greeting == q \in {<<"h","i">>, <<"h","e","l","l","o">>, <<"h","e","y">>}
                identity == q = <<"w","h","o"," ","a","r","e"," ","y","o","u">>
                body == resp[t].body
            IN  /\ greeting => resp[t].status = 200 /\ body.kind = "greeting"
                /\ (~greeting /\ identity) =>
                      resp[t].status = 200 /\ body.kind = "identity"
                /\ (~greeting /\ ~identity /\ docs[t] = <<>>) =>
                      /\ resp[t].status = 200 /\ body.kind = "fallback"
                      /\ body.query = query[t]
                /\ body.kind = "table" =>
                      ~greeting /\ ~identity /\ docs[t] # <<>>

\* C5 witness: a greeting answered although documents were retrieved, and a
\* fallback that echoes a query that differs from its normalized form
C5_Witness ==
    \E t, u \in Threads :
        /\ Composed(t) /\ resp[t].body.kind = "greeting" /\ docs[t] # <<>>
        /\ Composed(u) /\ resp[u].body.kind = "fallback"
        /\ resp[u].body.query # Normalized(query[u])

ExpectedKeys == {<<"d","i","s","t","r","i","c","t">>, <<"l","a","t","i","t","u","d","e">>, <<"l","o","n","g","i","t","u","d","e">>, <<"y","e","a","r">>, <<"s","c","e","n","a","r","i","o">>,
                 <<"p","o","p","u","l","a","t","i","o","n">>, <<"r","a","i","n","f","a","l","l">>, <<"g","r","o","u","n","d","w","a","t","e","r","_","l","e","v","e","l">>}

\* the assignments name every expected key exactly once and no other key
ExactKeySet(pairs) ==
    /\ Len(pairs) = Cardinality(ExpectedKeys)
    /\ {pairs[i][1] : i \in 1..Len(pairs)} = ExpectedKeys

\* C6: parsing data_to_text(record) with the composer's parser gives every
\* key exactly once, and the values of the record up to the unit suffix and
\* the rendering of numbers.
C6_RoundTrip ==
    call.op = "text" =>
        /\ ~call.raises
        /\ ExactKeySet(call.pairs)
        /\ call.fields[<<"d","i","s","t","r","i","c","t">>] = call.record.district.s
        /\ call.fields[<<"s","c","e","n","a","r","i","o">>] = call.record.scenario.s
        /\ call.fields[<<"y","e","a","r">>] = Format(call.record.year)
        /\ call.fields[<<"p","o","p","u","l","a","t","i","o","n">>] = Format(call.record.population_estimate)
        /\ call.fields[<<"l","a","t","i","t","u","d","e">>] = Format(call.record.lat)
        /\ call.fields[<<"l","o","n","g","i","t","u","d","e">>] = Format(call.record.lon)
        /\ call.fields[<<"r","a","i","n","f","a","l","l">>]
             = Format(call.record.avg_annual_rainfall_mm) \o <<" ","m","m">>
        /\ call.fields[<<"g","r","o","u","n","d","w","a","t","e","r","_","l","e","v","e","l">>]
             = Format(call.record.groundwater_level_m) \o <<" ","m">>

\* a retrieved text parses into exactly the expected key set
ParsesExactly(doc) == ~ParseRaises(doc) /\ ExactKeySet(FieldPairs(doc))

\* C7: a request never ends in a table response when one of its retrieved
\* texts does not parse into exactly the expected key set.
C7_NoTableFromBadParse ==
    \A t \in Threads :
        (Composed(t) /\ resp[t].body.kind = "table") =>
            \A i \in 1..Len(docs[t]) : ParsesExactly(docs[t][i])

EndsWith(s, tail) ==
    Len(tail) <= Len(s) /\ SubSeq(s, Len(s) - Len(tail) + 1, Len(s)) = tail

\* the ways a number of so many tenths is written
Numerals(tenths) ==
    {Digits(tenths \div 10) \o <<".">> \o Digits(tenths % 10)}
      \cup (IF tenths % 10 = 0 THEN {Digits(tenths \div 10)} ELSE {})

\* C8: a table response has one row per retrieved document, in retrieval
\* order; a chart is emitted exactly when the normalized query contains
\* 'ariyalur' and there is a row; its labels and values are as many as the
\* rows, entry i being "{year} ({scenario})" and the rainfall number of row i.
C8_TableTracksRetrieved ==
    \A t \in Threads :
        (Composed(t) /\ resp[t].body.kind = "table") =>
            LET rows == resp[t].body.rows
                chart == resp[t].body.chart
            IN  /\ Len(rows) = Len(docs[t])
                /\ \A i \in 1..Len(rows) :
                      EndsWith(docs[t][i],
                               <<","," ","R","a","i","n","f","a","l","l",":"," ">> \o rows[i].rainfall
                                 \o <<","," ","G","r","o","u","n","d","w","a","t","e","r"," ","L","e","v","e","l",":"," ">> \o rows[i].groundwater_level)
                /\ chart.present <=>
                      (Contains(Normalized(query[t]), <<"a","r","i","y","a","l","u","r">>) /\ Len(rows) >= 1)
                /\ chart.present =>
                      /\ Len(chart.labels) = Len(rows)
                      /\ Len(chart.data) = Len(rows)
                      /\ \A i \in 1..Len(rows) :
                            /\ chart.labels[i]
                                 = rows[i].year \o <<" ","(">> \o rows[i].scenario \o <<")">>
                            /\ \E numeral \in Numerals(chart.data[i]) :
                                  rows[i].rainfall = numeral \o <<" ","m","m">>

\* C8 witness: a table of two different rows with its chart
C8_Witness ==
    \E t \in Threads :
        /\ Composed(t) /\ resp[t].body.kind = "table"
        /\ resp[t].body.chart.present
        /\ Len(resp[t].body.rows) = 2
        /\ resp[t].body.rows[1] # resp[t].body.rows[2]

\* index, texts and records correspond position by position
Aligned ==
    /\ Len(faiss_index) = Len(data)
    /\ Len(texts) = Len(data)
    /\ \A i \in 1..Len(data) :
          /\ texts[i] = DataToText(data[i])
          /\ faiss_index[i] = Encode(model, texts[i])

\* C9: once the build has succeeded, no step of any request changes the
\* records, the texts, the model or the index, and in every such state the
\* index holds one vector per record and per text, position by position.
C9_ReadOnlyAfterBuild ==
    /\ [](boot = "serving" => Aligned)
    /\ [][boot = "serving" => (boot' = "serving" /\ UNCHANGED globals)]_vars

\* C9 witness: two requests in progress at once, one ended in an error
C9_Witness ==
    \E t, u \in Threads :
        /\ pc[t] = "done" /\ resp[t].status = 500
        /\ pc[u] = "generate" /\ docs[u] # <<>>
        /\ Len(data) = MaxRecords

\* the dataset file lets every build step succeed
Usable(f) ==
    /\ f.kind = "json"
    /\ Len(f.entries) > 0
    /\ \A i \in 1..Len(f.entries) :
          /\ "output" \in DOMAIN f.entries[i]
          /\ RecordFields \subseteq DOMAIN f.entries[i].output

\* C10: when a build step fails the initialisation never completes, a failed
\* initialisation stays failed, and a request is handled only when records,
\* texts and index are complete for every entry of the file.
C10_AllOrNothingStartup ==
    /\ [](~Usable(file) => (boot # "serving" /\ \A t \in Threads : pc[t] = "idle"))
    /\ []((\E t \in Threads : pc[t] # "idle") =>
             /\ boot = "serving"
             /\ Len(data) = Len(file.entries)
             /\ Len(texts) = Len(file.entries)
             /\ Len(faiss_index) = Len(file.entries))
    /\ [][boot = "failed" => boot' = "failed"]_vars

\* C10 witness: the records were loaded and the build of the store failed
C10_Witness == boot = "failed" /\ data # <<>>

=============================================================================
